---- MODULE Spec2Model ----
(***************************************************************************)
(* A model of golift/cache: the single worker (processor) that owns the    *)
(* Store and the Stats, the store operations it dispatches to, the pruner  *)
(* and the two tickers, with the public facade calls that feed it.         *)
(*                                                                         *)
(* Time is a small integer; ZeroTime is Go's zero time.Time.  Pointers to  *)
(* Items are modelled by the field "ref": two Item values with the same    *)
(* ref are the same object in memory.                                      *)
(* Stats.Pruning.Duration (wall time spent pruning) is not modelled.       *)
(***************************************************************************)
EXTENDS Integers, FiniteSets, Sequences, TLC

VARIABLES
    conf,      \* c.conf after newCache: PruneInterval, PruneAfter, MaxUnused
    cache,     \* c.cache: key -> Item
    stats,     \* c.stats
    now,       \* the processor's cached now
    clock,     \* wall clock, what time.Now() returns
    timerC,    \* timer.C, a channel with a buffer of one tick
    prunerC,   \* pruner.C, a channel with a buffer of one tick
    call,      \* the facade call served in the turn just taken, if any
    ret,       \* what that call returned to its caller
    evicted,   \* the items deleted by the prune pass just taken, if any
    saved,     \* per key, the payload of a Save(k, v, {}) not yet superseded
    run,       \* c.run
    reqCh,     \* c.req, the request channel: "open" or "closed"
    resCh,     \* c.res, the reply channel: "open" or "closed"
    worker,    \* the processRequests goroutine: where it is, the *Item it is sending
    tail,      \* an exited worker has closed c.res and not yet written c.run = false
    ctx,       \* the context the worker was started with
    ctrl,      \* the goroutine calling Start and Stop; in Stop it holds c.mu
    fault,     \* the panic that ended the program, if any
    pc,        \* per caller, where it is in its facade call
    rq,        \* per caller, the call it is making
    got        \* per caller, what its call returned

lifeVars == <<run, reqCh, resCh, worker, tail, ctx, ctrl, fault, pc, rq, got>>
vars == <<conf, cache, stats, now, clock, timerC, prunerC, call, ret, evicted, saved,
          run, reqCh, resCh, worker, tail, ctx, ctrl, fault, pc, rq, got>>

----------------------------------------------------------------------------
\* Bounds of the model.
MaxTime == 3
MaxOps == 2
NumCallers == 2

KeyOrder == <<"a", "b">>
Keys == {KeyOrder[i] : i \in 1..Len(KeyOrder)}
\* Data is an interface value (any): a payload is boxed in a record, so that
\* it can be compared with the map List returns and with a Stats.
NilData == [val |-> "nil"]
Payloads == {[val |-> "x"], [val |-> "y"]}
ScribbleData == [val |-> "scribbled"]
NoSave == [val |-> "none"]

ZeroTime == 0
ExpireTimes == {ZeroTime, 2}

NilItem == [nil |-> TRUE]
NilOpts == [nilopts |-> TRUE]
EmptyOpts == [Prune |-> FALSE, Expire |-> ZeroTime]
OptionSet == [Prune : BOOLEAN, Expire : ExpireTimes]

\* The inputs the callers draw from: every payload with no options, and one
\* payload with every combination of options.
SaveInputs ==
    {<<d, EmptyOpts>> : d \in Payloads \cup {NilData}} \cup {<<[val |-> "x"], o>> : o \in OptionSet}
UpdateInputs ==
    {<<d, EmptyOpts>> : d \in Payloads \cup {NilData}}
        \cup {<<[val |-> "y"], [Prune |-> TRUE, Expire |-> ZeroTime]>>}

\* The configurations, as newCache leaves them: pruning on with PruneAfter
\* below and above MaxUnused, and pruning off.
ConfSet ==
    {[PruneInterval |-> 1, PruneAfter |-> 1, MaxUnused |-> 2],
     [PruneInterval |-> 1, PruneAfter |-> 2, MaxUnused |-> 1],
     [PruneInterval |-> 0, PruneAfter |-> 1, MaxUnused |-> 1]}

StoreMapRef == 0
ZeroStats == [Hits |-> 0, Misses |-> 0, Saves |-> 0, Updates |-> 0,
              Deletes |-> 0, DelMiss |-> 0, Pruned |-> 0, Prunes |-> 0]
EmptyCache == [k \in {} |-> NilItem]

----------------------------------------------------------------------------
\* Allocation: the n-th address not in use.
NewRef(used, n) ==
    LET free == (1..(Cardinality(used) + n)) \ used
    IN  CHOOSE a \in free : Cardinality({b \in free : b < a}) = n - 1

Refs(cch) == {cch[k].ref : k \in DOMAIN cch}

KeyIdx(k) == CHOOSE i \in 1..Len(KeyOrder) : KeyOrder[i] = k
Rank(k, S) == Cardinality({j \in S : KeyIdx(j) <= KeyIdx(k)})

----------------------------------------------------------------------------
\* The requests the facade builds.
GetReq(k) ==
    [key |-> k, get |-> TRUE, stat |-> FALSE, list |-> FALSE, data |-> NilData, opts |-> NilOpts]
SaveReq(k, d, o) ==
    [key |-> k, get |-> FALSE, stat |-> FALSE, list |-> FALSE, data |-> d, opts |-> o]
UpdateReq(k, d, o) ==
    [key |-> k, get |-> TRUE, stat |-> FALSE, list |-> FALSE, data |-> d, opts |-> o]
DeleteReq(k) ==
    [key |-> k, get |-> FALSE, stat |-> FALSE, list |-> FALSE, data |-> NilData, opts |-> NilOpts]
ListReq ==
    [key |-> "", get |-> FALSE, stat |-> FALSE, list |-> TRUE, data |-> NilData, opts |-> NilOpts]
StatReq ==
    [key |-> "", get |-> FALSE, stat |-> TRUE, list |-> FALSE, data |-> NilData, opts |-> NilOpts]

----------------------------------------------------------------------------
\* The store operations.  Each returns the new cache, the new stats and the
\* *Item it hands to the processor for the reply.

copyAlias(i, a) == [i EXCEPT !.opts = NilOpts]
copy(i, a) ==
    [Data |-> i.Data, Time |-> i.Time, Last |-> i.Last, Hits |-> i.Hits,
     opts |-> NilOpts, ref |-> a]

getNoCount(cch, st, key, nw) ==
    IF key \in DOMAIN cch
    THEN LET item == [cch[key] EXCEPT !.Last = nw]
         IN  [cache |-> [cch EXCEPT ![key] = item], stats |-> st,
              item |-> copy(item, NewRef(Refs(cch), 1))]
    ELSE [cache |-> cch, stats |-> st, item |-> NilItem]
getTouch(cch, st, key, nw) ==
    IF key \in DOMAIN cch
    THEN LET item == [cch[key] EXCEPT !.Hits = @ + 1, !.Last = nw]
         IN  [cache |-> [cch EXCEPT ![key] = item],
              stats |-> [st EXCEPT !.Hits = @ + 1],
              item |-> copy(item, NewRef(Refs(cch), 1))]
    ELSE [cache |-> (key :> [Data |-> NilData, Time |-> nw, Last |-> nw, Hits |-> 0,
                             opts |-> EmptyOpts, ref |-> NewRef(Refs(cch), 1)]) @@ cch,
          stats |-> [st EXCEPT !.Misses = @ + 1, !.Saves = @ + 1],
          item |-> NilItem]
get(cch, st, key, nw) ==
    IF key \in DOMAIN cch
    THEN LET item == [cch[key] EXCEPT !.Hits = @ + 1, !.Last = nw]
         IN  [cache |-> [cch EXCEPT ![key] = item],
              stats |-> [st EXCEPT !.Hits = @ + 1],
              item |-> copy(item, NewRef(Refs(cch), 1))]
    ELSE [cache |-> cch, stats |-> [st EXCEPT !.Misses = @ + 1], item |-> NilItem]

saveStale(cch, st, req, nw, replace) ==
    LET g == IF replace
             THEN get(cch, st, req.key, nw)
             ELSE [cache |-> cch, stats |-> st,
                   item |-> IF req.key \in DOMAIN cch THEN cch[req.key] ELSE NilItem]
        old == IF req.key \in DOMAIN cch THEN cch[req.key] ELSE NilItem
        st2 == IF g.item # NilItem
               THEN [g.stats EXCEPT !.Updates = @ + 1]
               ELSE [g.stats EXCEPT !.Saves = @ + 1]
        used == Refs(g.cache) \cup (IF g.item # NilItem THEN {g.item.ref} ELSE {})
        new == [Data |-> req.data, Time |-> nw, Last |-> nw, Hits |-> 0,
                opts |-> req.opts, ref |-> NewRef(used, 1)]
    IN  [cache |-> (req.key :> new) @@ g.cache, stats |-> st2, item |-> old]
save(cch, st, req, nw, replace) ==
    LET g == IF replace
             THEN get(cch, st, req.key, nw)
             ELSE [cache |-> cch, stats |-> st,
                   item |-> IF req.key \in DOMAIN cch THEN cch[req.key] ELSE NilItem]
        st2 == IF g.item # NilItem
               THEN [g.stats EXCEPT !.Updates = @ + 1]
               ELSE [g.stats EXCEPT !.Saves = @ + 1]
        used == Refs(g.cache) \cup (IF g.item # NilItem THEN {g.item.ref} ELSE {})
        new == [Data |-> req.data, Time |-> nw, Last |-> nw, Hits |-> 0,
                opts |-> req.opts, ref |-> NewRef(used, 1)]
    IN  [cache |-> (req.key :> new) @@ g.cache, stats |-> st2, item |-> g.item]

listByOne(cch, st) ==
    LET n == Cardinality(DOMAIN cch)
        first == CHOOSE k \in DOMAIN cch : Rank(k, DOMAIN cch) = 1
        keys == IF n > 1 THEN DOMAIN cch \ {first} ELSE DOMAIN cch
        items == [k \in keys |-> copy(cch[k], NewRef(Refs(cch), Rank(k, DOMAIN cch)))]
    IN  [cache |-> cch, stats |-> st,
         item |-> [Data |-> [ref |-> NewRef(Refs(cch), n + 1), items |-> items],
                   Time |-> ZeroTime, Last |-> ZeroTime, Hits |-> 0,
                   opts |-> NilOpts, ref |-> NewRef(Refs(cch), n + 2)]]
listTouch(cch, st) ==
    LET n == Cardinality(DOMAIN cch)
        items == [k \in DOMAIN cch |-> copy(cch[k], NewRef(Refs(cch), Rank(k, DOMAIN cch)))]
    IN  [cache |-> [k \in DOMAIN cch |-> [cch[k] EXCEPT !.Hits = @ + 1]],
         stats |-> st,
         item |-> [Data |-> [ref |-> NewRef(Refs(cch), n + 1), items |-> items],
                   Time |-> ZeroTime, Last |-> ZeroTime, Hits |-> 0,
                   opts |-> NilOpts, ref |-> NewRef(Refs(cch), n + 2)]]
list(cch, st) ==
    LET n == Cardinality(DOMAIN cch)
        items == [k \in DOMAIN cch |-> copy(cch[k], NewRef(Refs(cch), Rank(k, DOMAIN cch)))]
    IN  [cache |-> cch, stats |-> st,
         item |-> [Data |-> [ref |-> NewRef(Refs(cch), n + 1), items |-> items],
                   Time |-> ZeroTime, Last |-> ZeroTime, Hits |-> 0,
                   opts |-> NilOpts, ref |-> NewRef(Refs(cch), n + 2)]]

deleteKeep(cch, st, key) ==
    IF key \notin DOMAIN cch
    THEN [cache |-> cch, stats |-> [st EXCEPT !.DelMiss = @ + 1], item |-> NilItem]
    ELSE [cache |-> cch, stats |-> [st EXCEPT !.Deletes = @ + 1],
          item |-> [cch[key] EXCEPT !.opts = NilOpts]]
delete(cch, st, key) ==
    IF key \notin DOMAIN cch
    THEN [cache |-> cch, stats |-> [st EXCEPT !.DelMiss = @ + 1], item |-> NilItem]
    ELSE [cache |-> [k \in DOMAIN cch \ {key} |-> cch[k]],
          stats |-> [st EXCEPT !.Deletes = @ + 1],
          item |-> [cch[key] EXCEPT !.opts = NilOpts]]

pruneAtOrPast(cch, st, cf, from) ==
    LET gone == {k \in DOMAIN cch :
                    LET last == from - cch[k].Last
                    IN  \/ last >= cf.MaxUnused
                        \/ cch[k].opts.Prune /\ last >= cf.PruneAfter
                        \/ cch[k].opts.Expire # ZeroTime /\ from > cch[k].opts.Expire}
    IN  [cache |-> [k \in DOMAIN cch \ gone |-> cch[k]],
         stats |-> [st EXCEPT !.Prunes = @ + 1, !.Pruned = @ + Cardinality(gone)],
         gone |-> [k \in gone |-> cch[k]]]
pruneIgnoreFlag(cch, st, cf, from) ==
    LET gone == {k \in DOMAIN cch :
                    LET last == from - cch[k].Last
                    IN  \/ last > cf.MaxUnused
                        \/ cch[k].opts.Expire # ZeroTime /\ from > cch[k].opts.Expire}
    IN  [cache |-> [k \in DOMAIN cch \ gone |-> cch[k]],
         stats |-> [st EXCEPT !.Prunes = @ + 1, !.Pruned = @ + Cardinality(gone)],
         gone |-> [k \in gone |-> cch[k]]]
pruneNoDeadline(cch, st, cf, from) ==
    LET gone == {k \in DOMAIN cch :
                    LET last == from - cch[k].Last
                    IN  \/ last > cf.MaxUnused
                        \/ cch[k].opts.Prune /\ last > cf.PruneAfter}
    IN  [cache |-> [k \in DOMAIN cch \ gone |-> cch[k]],
         stats |-> [st EXCEPT !.Prunes = @ + 1, !.Pruned = @ + Cardinality(gone)],
         gone |-> [k \in gone |-> cch[k]]]
pruneUncounted(cch, st, cf, from) ==
    LET gone == {k \in DOMAIN cch :
                    LET last == from - cch[k].Last
                    IN  \/ last > cf.MaxUnused
                        \/ cch[k].opts.Prune /\ last > cf.PruneAfter
                        \/ cch[k].opts.Expire # ZeroTime /\ from > cch[k].opts.Expire}
    IN  [cache |-> [k \in DOMAIN cch \ gone |-> cch[k]],
         stats |-> [st EXCEPT !.Prunes = @ + 1],
         gone |-> [k \in gone |-> cch[k]]]
prune(cch, st, cf, from) ==
    LET gone == {k \in DOMAIN cch :
                    LET last == from - cch[k].Last
                    IN  \/ last > cf.MaxUnused
                        \/ cch[k].opts.Prune /\ last > cf.PruneAfter
                        \/ cch[k].opts.Expire # ZeroTime /\ from > cch[k].opts.Expire}
    IN  [cache |-> [k \in DOMAIN cch \ gone |-> cch[k]],
         stats |-> [st EXCEPT !.Prunes = @ + 1, !.Pruned = @ + Cardinality(gone)],
         gone |-> [k \in gone |-> cch[k]]]

\* process: the switch of the processor, in the order of its cases.
process(cch, st, nw, req) ==
    IF req.data # NilData THEN save(cch, st, req, nw, req.get)
    ELSE IF req.get THEN get(cch, st, req.key, nw)
    ELSE IF req.list THEN list(cch, st)
    ELSE IF req.stat
         THEN [cache |-> cch, stats |-> st,
               item |-> [Data |-> st, Time |-> ZeroTime, Last |-> ZeroTime,
                         Hits |-> Cardinality(DOMAIN cch), opts |-> NilOpts,
                         ref |-> NewRef(Refs(cch), 1)]]
    ELSE delete(cch, st, req.key)

----------------------------------------------------------------------------
\* What the facade hands back to its caller, from the *Item it receives.
StatsOf(item) ==
    [Hits |-> item.Data.Hits, Misses |-> item.Data.Misses, Saves |-> item.Data.Saves,
     Updates |-> item.Data.Updates, Deletes |-> item.Data.Deletes,
     DelMiss |-> item.Data.DelMiss, Pruned |-> item.Data.Pruned,
     Prunes |-> item.Data.Prunes,
     Gets |-> item.Data.Hits + item.Data.Misses, Size |-> item.Hits]

Returned(op, item) ==
    CASE op \in {"Get", "Update"} -> item
      [] op \in {"Save", "Delete"} -> (item # NilItem)
      [] op = "List" -> item.Data
      [] op = "Stats" -> StatsOf(item)

Call(op, k, d, o) == [op |-> op, key |-> k, data |-> d, opts |-> o]
NoCall == Call("", "", NilData, NilOpts)
\* The caller has taken its result; nothing is being returned.
Idle == call' = NoCall /\ ret' = NilItem /\ evicted' = EmptyCache

\* The number of counted requests so far; the model serves MaxOps of them.
OpCount(st) ==
    st.Hits + st.Misses + st.Saves + st.Updates + st.Deletes + st.DelMiss

\* One turn of the processor on a request: dequeue, process, reply.
Serve(c, req) ==
    LET r == process(cache, stats, now, req)
    IN  /\ call = NoCall
        /\ cache' = r.cache
        /\ stats' = r.stats
        /\ call' = c
        /\ ret' = Returned(c.op, r.item)
        /\ evicted' = EmptyCache
        /\ UNCHANGED <<conf, now, clock, timerC, prunerC>>
        /\ UNCHANGED lifeVars

\* The callers, the worker at its select, the lifecycle goroutine at rest.
Procs == 1..NumCallers
\* worker.dyn is the dynamic type of item.Data; worker.to (the caller whose
\* request the item answers) and worker.fresh (no request processed since the
\* worker was launched) are history, which no action reads.
AtSelect == [pc |-> "select", item |-> NilItem, dyn |-> "", to |-> 0, fresh |-> TRUE]
Gone == [AtSelect EXCEPT !.pc = "none"]
\* ctrl.pc is the call in progress or the last one made, ctrl.clean its
\* argument, ctrl.stopped the argument of the last Stop that returned.
CtrlIdle == [pc |-> "idle", clean |-> FALSE, stopped |-> "no"]
NoFault == "none"

----------------------------------------------------------------------------
Init ==
    /\ conf \in ConfSet
    /\ cache = EmptyCache
    /\ stats = ZeroStats
    /\ now = 1
    /\ clock = 1
    /\ timerC = <<>>
    /\ prunerC = <<>>
    /\ call = NoCall
    /\ ret = NilItem
    /\ evicted = EmptyCache
    /\ saved = [k \in Keys |-> NoSave]
    /\ run = TRUE
    /\ reqCh = "open"
    /\ resCh = "open"
    /\ worker = AtSelect
    /\ tail = FALSE
    /\ ctx = "live"
    /\ ctrl = CtrlIdle
    /\ fault = NoFault
    /\ pc = [p \in Procs |-> "idle"]
    /\ rq = [p \in Procs |-> NoCall]
    /\ got = [p \in Procs |-> NilItem]

Get(k) ==
    /\ OpCount(stats) < MaxOps
    /\ Serve(Call("Get", k, NilData, NilOpts), GetReq(k))
    /\ UNCHANGED saved

Save(k, d, o) ==
    /\ OpCount(stats) < MaxOps
    /\ Serve(Call("Save", k, d, o), SaveReq(k, d, o))
    /\ saved' = [saved EXCEPT ![k] = IF o = EmptyOpts THEN d ELSE NoSave]

Update(k, d, o) ==
    /\ OpCount(stats) < MaxOps
    /\ Serve(Call("Update", k, d, o), UpdateReq(k, d, o))
    /\ saved' = [saved EXCEPT ![k] = NoSave]

Delete(k) ==
    /\ OpCount(stats) < MaxOps
    /\ Serve(Call("Delete", k, NilData, NilOpts), DeleteReq(k))
    /\ saved' = [saved EXCEPT ![k] = NoSave]

List ==
    /\ Serve(Call("List", "", NilData, NilOpts), ListReq)
    /\ UNCHANGED saved

Stats ==
    /\ Serve(Call("Stats", "", NilData, NilOpts), StatReq)
    /\ UNCHANGED saved

\* The runtime fires a ticker: the tick carries the time at which it fired,
\* later than every earlier tick.  A tick waits in the channel until the
\* processor receives it.
TimerFire ==
    /\ call = NoCall
    /\ fault = NoFault
    /\ worker.pc # "none"
    /\ Len(timerC) = 0
    /\ \E t \in (clock + 1)..MaxTime : clock' = t /\ timerC' = <<t>>
    /\ Idle
    /\ UNCHANGED <<conf, cache, stats, now, prunerC, saved>>
    /\ UNCHANGED lifeVars

PrunerFire ==
    /\ call = NoCall
    /\ fault = NoFault
    /\ worker.pc # "none"
    /\ conf.PruneInterval > 0
    /\ Len(prunerC) = 0
    /\ \E t \in (clock + 1)..MaxTime : clock' = t /\ prunerC' = <<t>>
    /\ Idle
    /\ UNCHANGED <<conf, cache, stats, now, timerC, saved>>
    /\ UNCHANGED lifeVars

\* case now = <-timer.C
ClockRefresh ==
    /\ call = NoCall
    /\ fault = NoFault
    /\ worker.pc = "select"
    /\ Len(timerC) = 1
    /\ now' = timerC[1]
    /\ timerC' = <<>>
    /\ Idle
    /\ UNCHANGED <<conf, cache, stats, clock, prunerC, saved>>
    /\ UNCHANGED lifeVars

PruneTickBusy ==
    /\ call = NoCall
    /\ fault = NoFault
    /\ worker.pc # "none"
    /\ Len(prunerC) = 1
    /\ now' = prunerC[1]
    /\ prunerC' = <<>>
    /\ LET p == prune(cache, stats, conf, prunerC[1])
       IN  /\ cache' = p.cache
           /\ stats' = p.stats
           /\ evicted' = p.gone
    /\ call' = Call("Prune", "", NilData, NilOpts)
    /\ ret' = NilItem
    /\ saved' = [k \in Keys |-> NoSave]
    /\ UNCHANGED <<conf, clock, timerC>>
    /\ UNCHANGED lifeVars
\* case now = <-pruner.C
PruneTick ==
    /\ call = NoCall
    /\ fault = NoFault
    /\ worker.pc = "select"
    /\ Len(prunerC) = 1
    /\ now' = prunerC[1]
    /\ prunerC' = <<>>
    /\ LET p == prune(cache, stats, conf, prunerC[1])
       IN  /\ cache' = p.cache
           /\ stats' = p.stats
           /\ evicted' = p.gone
    /\ call' = Call("Prune", "", NilData, NilOpts)
    /\ ret' = NilItem
    /\ saved' = [k \in Keys |-> NoSave]
    /\ UNCHANGED <<conf, clock, timerC>>
    /\ UNCHANGED lifeVars

\* The turn is over: the caller has its result and the processor is back at
\* its select.
Resume ==
    /\ call # NoCall
    /\ Idle
    /\ UNCHANGED <<conf, cache, stats, now, clock, timerC, prunerC, saved>>
    /\ UNCHANGED lifeVars

\* The caller has written to what it was returned, and let go of it.
Wrote ==
    call' = Call("Mutate", "", NilData, NilOpts) /\ ret' = NilItem /\ evicted' = EmptyCache

\* A caller writes to the Item it was just returned: every field it can reach.
\* What reaches the Store is the write to an object the Store holds.
Scribble(i) ==
    [i EXCEPT !.Data = ScribbleData, !.Time = ZeroTime, !.Last = ZeroTime, !.Hits = 0 - 1]

WriteThrough(cch, target) ==
    [k \in DOMAIN cch |-> IF cch[k].ref = target.ref THEN Scribble(cch[k]) ELSE cch[k]]

MutateItem ==
    /\ call.op \in {"Get", "Update"}
    /\ ret # NilItem
    /\ cache' = WriteThrough(cache, ret)
    /\ Wrote
    /\ UNCHANGED <<conf, stats, now, clock, timerC, prunerC, saved>>
    /\ UNCHANGED lifeVars

\* A caller writes to the mapping List returned: to an Item of it, or it
\* removes or adds an entry.
MutateMap ==
    /\ call.op = "List"
    /\ \E k \in Keys :
         /\ \/ /\ k \in DOMAIN ret.items
               /\ cache' = WriteThrough(cache, ret.items[k])
            \/ /\ k \in DOMAIN ret.items
               /\ cache' = IF ret.ref = StoreMapRef
                           THEN [j \in DOMAIN cache \ {k} |-> cache[j]]
                           ELSE cache
            \/ /\ k \notin DOMAIN ret.items
               /\ LET mine == [Data |-> ScribbleData, Time |-> ZeroTime,
                               Last |-> ZeroTime, Hits |-> 0, opts |-> NilOpts,
                               ref |-> NewRef(Refs(cache) \cup Refs(ret.items)
                                                \cup {ret.ref}, 1)]
                  IN  cache' = IF ret.ref = StoreMapRef
                               THEN (k :> mine) @@ cache
                               ELSE cache
         /\ Wrote
    /\ UNCHANGED <<conf, stats, now, clock, timerC, prunerC, saved>>
    /\ UNCHANGED lifeVars

Next ==
    \/ \E k \in Keys : Get(k)
    \/ \E k \in Keys, i \in SaveInputs : Save(k, i[1], i[2])
    \/ \E k \in Keys, i \in UpdateInputs : Update(k, i[1], i[2])
    \/ \E k \in Keys : Delete(k)
    \/ List
    \/ Stats
    \/ TimerFire
    \/ PrunerFire
    \/ ClockRefresh
    \/ PruneTick
    \/ Resume
    \/ MutateItem
    \/ MutateMap

Spec == Init /\ [][Next]_vars

----------------------------------------------------------------------------
\* The callers, the worker and the lifecycle as goroutines that meet on the
\* two unbuffered channels.

\* The facade calls the callers make.
CallSet ==
    {Call("Get", "a", NilData, NilOpts), Call("Save", "a", [val |-> "x"], EmptyOpts),
     Call("Update", "a", [val |-> "y"], EmptyOpts), Call("Delete", "a", NilData, NilOpts),
     Call("List", "", NilData, NilOpts), Call("Stats", "", NilData, NilOpts)}

\* The request a facade call sends.
ReqOf(c) ==
    CASE c.op = "Get" -> GetReq(c.key)
      [] c.op = "Save" -> SaveReq(c.key, c.data, c.opts)
      [] c.op = "Update" -> UpdateReq(c.key, c.data, c.opts)
      [] c.op = "Delete" -> DeleteReq(c.key)
      [] c.op = "List" -> ListReq
      [] c.op = "Stats" -> StatReq

\* The dynamic type of the Data of the reply to a request, by the case of the
\* switch that serves it.
DynOf(req) ==
    IF req.data # NilData \/ req.get THEN "any"
    ELSE IF req.list THEN "map"
    ELSE IF req.stat THEN "Stats"
    ELSE "any"

\* List and Stats dereference the *Item they receive: nil is a panic; Stats
\* asserts that its Data is a Stats.
NilDeref == "nil pointer dereference"
BadType == "interface conversion"
NilMap == [ref |-> StoreMapRef - 1, items |-> EmptyCache]
SendOnClosed == "send on closed channel"
CloseOfClosed == "close of closed channel"

ToStr(b) == IF b THEN "true" ELSE "false"

storeVars == <<conf, cache, stats, now, clock, timerC, prunerC>>
obsVars == <<call, ret, evicted, saved>>

cleanStats(cch, st) == [cache |-> EmptyCache, stats |-> ZeroStats]
\* clean: every item is released and the map dropped; c.stats is not touched.
clean(cch, st) == [cache |-> EmptyCache, stats |-> st]

CallBeginBlock(p, c) ==
    /\ fault = NoFault
    /\ pc[p] = "idle"
    /\ OpCount(stats) < MaxOps
    /\ rq' = [rq EXCEPT ![p] = c]
    /\ fault' = fault
    /\ pc' = [pc EXCEPT ![p] = "send"]
    /\ UNCHANGED <<storeVars, obsVars, run, reqCh, resCh, worker, tail, ctx, ctrl, got>>
\* The caller evaluates c.req <- &req{...}: a panic on a closed channel,
\* otherwise it blocks until the worker receives.
CallBegin(p, c) ==
    /\ fault = NoFault
    /\ pc[p] = "idle"
    /\ OpCount(stats) < MaxOps
    /\ rq' = [rq EXCEPT ![p] = c]
    /\ IF reqCh = "closed"
       THEN fault' = SendOnClosed /\ pc' = pc
       ELSE fault' = fault /\ pc' = [pc EXCEPT ![p] = "send"]
    /\ UNCHANGED <<storeVars, obsVars, run, reqCh, resCh, worker, tail, ctx, ctrl, got>>

WorkerRecvBusy(p) ==
    /\ fault = NoFault
    /\ worker.pc \in {"select", "reply"}
    /\ reqCh = "open"
    /\ pc[p] = "send"
    /\ pc' = [pc EXCEPT ![p] = "recv"]
    /\ LET r == process(cache, stats, now, ReqOf(rq[p]))
       IN  /\ cache' = r.cache
           /\ stats' = r.stats
           /\ worker' = [pc |-> "reply", item |-> r.item, dyn |-> DynOf(ReqOf(rq[p])),
                          to |-> p, fresh |-> FALSE]
    /\ UNCHANGED <<conf, now, clock, timerC, prunerC, obsVars>>
    /\ UNCHANGED <<run, reqCh, resCh, tail, ctx, ctrl, fault, rq, got>>
\* case req, ok := <-c.req, with ok: the worker takes p's request, processes
\* it and goes to send the reply; p goes to receive from c.res.
WorkerRecv(p) ==
    /\ fault = NoFault
    /\ worker.pc = "select"
    /\ reqCh = "open"
    /\ pc[p] = "send"
    /\ pc' = [pc EXCEPT ![p] = "recv"]
    /\ LET r == process(cache, stats, now, ReqOf(rq[p]))
       IN  /\ cache' = r.cache
           /\ stats' = r.stats
           /\ worker' = [pc |-> "reply", item |-> r.item, dyn |-> DynOf(ReqOf(rq[p])),
                          to |-> p, fresh |-> FALSE]
    /\ UNCHANGED <<conf, now, clock, timerC, prunerC, obsVars>>
    /\ UNCHANGED <<run, reqCh, resCh, tail, ctx, ctrl, fault, rq, got>>

\* What a caller does with the *Item it received, Data of dynamic type dyn.
Receive(p, item, dyn) ==
    LET op == rq[p].op
    IN  IF op \in {"List", "Stats"} /\ item = NilItem
        THEN fault' = NilDeref /\ pc' = pc /\ got' = got
        ELSE IF op = "Stats" /\ dyn # "Stats"
        THEN fault' = BadType /\ pc' = pc /\ got' = got
        ELSE /\ fault' = fault
             /\ pc' = [pc EXCEPT ![p] = "done"]
             /\ got' = [got EXCEPT ![p] = IF op = "List" /\ dyn # "map" THEN NilMap
                                          ELSE Returned(op, item)]

CallerRecvHold(p) ==
    /\ fault = NoFault
    /\ pc[p] = "recv"
    /\ worker.pc = "reply"
    /\ Receive(p, worker.item, worker.dyn)
    /\ worker' = worker
    /\ UNCHANGED <<storeVars, obsVars, run, reqCh, resCh, tail, ctx, ctrl, rq>>
CallerRecvEarly(p) ==
    /\ fault = NoFault
    /\ pc[p] \in {"send", "recv"}
    /\ worker.pc = "reply"
    /\ Receive(p, worker.item, worker.dyn)
    /\ worker' = [AtSelect EXCEPT !.fresh = FALSE]
    /\ UNCHANGED <<storeVars, obsVars, run, reqCh, resCh, tail, ctx, ctrl, rq>>
\* c.res <- item meets p's <-c.res.
CallerRecv(p) ==
    /\ fault = NoFault
    /\ pc[p] = "recv"
    /\ worker.pc = "reply"
    /\ Receive(p, worker.item, worker.dyn)
    /\ worker' = [AtSelect EXCEPT !.fresh = FALSE]
    /\ UNCHANGED <<storeVars, obsVars, run, reqCh, resCh, tail, ctx, ctrl, rq>>

\* p's <-c.res on the closed channel yields nil.
CallerRecvClosed(p) ==
    /\ fault = NoFault
    /\ pc[p] = "woken"
    /\ Receive(p, NilItem, "")
    /\ UNCHANGED <<storeVars, obsVars, run, reqCh, resCh, worker, tail, ctx, ctrl, rq>>

\* The call has returned; the caller is free to make another.
Return(p) ==
    /\ fault = NoFault
    /\ pc[p] = "done"
    /\ pc' = [pc EXCEPT ![p] = "idle"]
    /\ rq' = [rq EXCEPT ![p] = NoCall]
    /\ got' = [got EXCEPT ![p] = NilItem]
    /\ UNCHANGED <<storeVars, obsVars, run, reqCh, resCh, worker, tail, ctx, ctrl, fault>>

\* close(c.req): a panic if it is closed already; a caller blocked in its send
\* panics.
CloseReq ==
    /\ reqCh' = "closed"
    /\ fault' = IF reqCh = "closed" THEN CloseOfClosed
                ELSE IF \E p \in Procs : pc[p] = "send" THEN SendOnClosed
                ELSE fault

\* The deferred function of processRequests: the tickers are stopped and
\* c.res is closed, which wakes every caller blocked in its receive; the write
\* of c.run is still to come.
Leave ==
    /\ resCh' = "closed"
    /\ worker' = Gone
    /\ tail' = TRUE
    /\ pc' = [p \in Procs |-> IF pc[p] = "recv" THEN "woken" ELSE pc[p]]

\* case req, ok := <-c.req, with !ok: Stop() was called.
WorkerExit ==
    /\ fault = NoFault
    /\ worker.pc = "select"
    /\ reqCh = "closed"
    /\ Leave
    /\ UNCHANGED <<storeVars, obsVars, run, reqCh, ctx, ctrl, fault, rq, got>>

WorkerCancelClean ==
    /\ fault = NoFault
    /\ worker.pc = "select"
    /\ ctx = "done"
    /\ CloseReq
    /\ Leave
    /\ cache' = EmptyCache
    /\ UNCHANGED <<conf, stats, now, clock, timerC, prunerC, obsVars, run, ctx, ctrl, rq, got>>
\* case <-ctx.Done(): the worker closes c.req itself and returns.
WorkerCancel ==
    /\ fault = NoFault
    /\ worker.pc = "select"
    /\ ctx = "done"
    /\ CloseReq
    /\ Leave
    /\ UNCHANGED <<storeVars, obsVars, run, ctx, ctrl, rq, got>>

\* c.run = false, the last statement of the deferred function.
RunFalse ==
    /\ fault = NoFault
    /\ tail
    /\ run' = FALSE
    /\ tail' = FALSE
    /\ UNCHANGED <<storeVars, obsVars, reqCh, resCh, worker, ctx, ctrl, fault, pc, rq, got>>

\* The context given to NewWithContext is cancelled.
Cancel ==
    /\ fault = NoFault
    /\ ctx = "live"
    /\ ctx' = "done"
    /\ UNCHANGED <<storeVars, obsVars, run, reqCh, resCh, worker, tail, ctrl, fault, pc, rq, got>>

\* Stop(clean) up to its <-c.res: under c.mu, nothing if c.run is false,
\* otherwise c.req is closed.
StopBegin(cl) ==
    /\ fault = NoFault
    /\ ctrl.pc # "inStop"
    /\ IF run
       THEN CloseReq /\ ctrl' = [pc |-> "inStop", clean |-> cl, stopped |-> "no"]
       ELSE /\ ctrl' = [ctrl EXCEPT !.pc = "noStop", !.clean = cl]
            /\ UNCHANGED <<reqCh, fault>>
    /\ UNCHANGED <<storeVars, obsVars, run, resCh, worker, tail, ctx, pc, rq, got>>

\* Stop's <-c.res returns, on the close of c.res or with an *Item the worker
\* was sending; then clean() if asked, and c.mu is released.
StopRecv ==
    /\ fault = NoFault
    /\ ctrl.pc = "inStop"
    /\ \/ /\ worker.pc = "reply"
          /\ worker' = [AtSelect EXCEPT !.fresh = FALSE]
          /\ ctrl' = [ctrl EXCEPT !.pc = "didStopEarly", !.stopped = ToStr(ctrl.clean)]
       \/ /\ resCh = "closed"
          /\ worker' = worker
          /\ ctrl' = [ctrl EXCEPT !.pc = "didStop", !.stopped = ToStr(ctrl.clean)]
    /\ LET c == IF ctrl.clean THEN clean(cache, stats) ELSE [cache |-> cache, stats |-> stats]
       IN  cache' = c.cache /\ stats' = c.stats
    /\ UNCHANGED <<conf, now, clock, timerC, prunerC, obsVars>>
    /\ UNCHANGED <<run, reqCh, resCh, tail, ctx, fault, pc, rq, got>>

StartAlways(cl) ==
    /\ fault = NoFault
    /\ ctrl.pc # "inStop"
    /\ LET c == IF cl THEN clean(cache, stats)
                ELSE [cache |-> cache, stats |-> stats]
       IN  cache' = c.cache /\ stats' = c.stats
    /\ reqCh' = "open"
    /\ resCh' = "open"
    /\ run' = TRUE
    /\ worker' = AtSelect
    /\ now' = clock
    /\ timerC' = <<>>
    /\ prunerC' = <<>>
    /\ ctx' = "background"
    /\ ctrl' = [ctrl EXCEPT !.pc = "didStart", !.clean = cl]
    /\ UNCHANGED <<conf, clock>>
    /\ UNCHANGED <<obsVars, tail, fault, pc, rq, got>>
StartCleanFirst(cl) ==
    /\ fault = NoFault
    /\ ctrl.pc # "inStop"
    /\ LET c == IF cl THEN clean(cache, stats) ELSE [cache |-> cache, stats |-> stats]
       IN  cache' = c.cache /\ stats' = c.stats
    /\ IF run
       THEN /\ ctrl' = [ctrl EXCEPT !.pc = "noStart", !.clean = cl]
            /\ UNCHANGED <<conf, now, clock, timerC, prunerC, run, reqCh, resCh, worker, ctx>>
       ELSE /\ reqCh' = "open"
            /\ resCh' = "open"
            /\ run' = TRUE
            /\ worker' = AtSelect
            /\ now' = clock
            /\ timerC' = <<>>
            /\ prunerC' = <<>>
            /\ ctx' = "background"
            /\ ctrl' = [ctrl EXCEPT !.pc = "didStart", !.clean = cl]
            /\ UNCHANGED <<conf, clock>>
    /\ UNCHANGED <<obsVars, tail, fault, pc, rq, got>>
StartZero(cl) ==
    /\ fault = NoFault
    /\ ctrl.pc # "inStop"
    /\ IF run
       THEN /\ ctrl' = [ctrl EXCEPT !.pc = "noStart", !.clean = cl]
            /\ UNCHANGED <<storeVars, run, reqCh, resCh, worker, ctx>>
       ELSE /\ cache' = IF cl THEN EmptyCache ELSE cache
            /\ stats' = ZeroStats
            /\ reqCh' = "open"
            /\ resCh' = "open"
            /\ run' = TRUE
            /\ worker' = AtSelect
            /\ now' = clock
            /\ timerC' = <<>>
            /\ prunerC' = <<>>
            /\ ctx' = "background"
            /\ ctrl' = [ctrl EXCEPT !.pc = "didStart", !.clean = cl]
            /\ UNCHANGED <<conf, clock>>
    /\ UNCHANGED <<obsVars, tail, fault, pc, rq, got>>
\* Start(clean): under c.mu, nothing if c.run is true; otherwise clean() if
\* asked, then start(): new channels, c.run = true and a new worker, with new
\* tickers and now = time.Now(), on the background context.
Start(cl) ==
    /\ fault = NoFault
    /\ ctrl.pc # "inStop"
    /\ IF run
       THEN /\ ctrl' = [ctrl EXCEPT !.pc = "noStart", !.clean = cl]
            /\ UNCHANGED <<storeVars, run, reqCh, resCh, worker, ctx>>
       ELSE /\ LET c == IF cl THEN clean(cache, stats)
                        ELSE [cache |-> cache, stats |-> stats]
               IN  cache' = c.cache /\ stats' = c.stats
            /\ reqCh' = "open"
            /\ resCh' = "open"
            /\ run' = TRUE
            /\ worker' = AtSelect
            /\ now' = clock
            /\ timerC' = <<>>
            /\ prunerC' = <<>>
            /\ ctx' = "background"
            /\ ctrl' = [ctrl EXCEPT !.pc = "didStart", !.clean = cl]
            /\ UNCHANGED <<conf, clock>>
    /\ UNCHANGED <<obsVars, tail, fault, pc, rq, got>>

\* A cache made with pruning on.
CallInit == Init /\ conf.PruneInterval > 0 /\ conf.PruneAfter < conf.MaxUnused

\* Callers and one worker, with no Stop, Start or cancellation.
CallNext ==
    \/ \E p \in Procs, c \in CallSet : CallBegin(p, c)
    \/ \E p \in Procs : WorkerRecv(p)
    \/ \E p \in Procs : CallerRecv(p)
    \/ \E p \in Procs : Return(p)
    \/ TimerFire
    \/ PrunerFire
    \/ ClockRefresh
    \/ PruneTick
    \/ Resume

\* The scheduler runs every goroutine that can take a step, and a request
\* waiting in c.req is received in its turn.
CallFair ==
    /\ \A p \in Procs : SF_vars(WorkerRecv(p))
    /\ \A p \in Procs : WF_vars(CallerRecv(p))
    /\ \A p \in Procs : WF_vars(Return(p))

CallSpec == CallInit /\ [][CallNext]_vars /\ CallFair

\* A cache made by NewWithContext with pruning off.
LifeInit == Init /\ conf.PruneInterval = 0

\* One caller and the worker, with Stop, Start and the cancellation of the
\* context.
LifeNext ==
    \/ \E c \in CallSet : CallBegin(1, c)
    \/ WorkerRecv(1)
    \/ CallerRecv(1)
    \/ CallerRecvClosed(1)
    \/ Return(1)
    \/ TimerFire
    \/ ClockRefresh
    \/ WorkerExit
    \/ WorkerCancel
    \/ RunFalse
    \/ Cancel
    \/ \E cl \in BOOLEAN : StopBegin(cl)
    \/ StopRecv
    \/ \E cl \in BOOLEAN : Start(cl)

LifeSpec == LifeInit /\ [][LifeNext]_vars

----------------------------------------------------------------------------
\* The claims.

\* C1: for every key k and payload v, after Save(k, v, {}) a Get(k) processed
\* with no Save, Update or Delete of k and no prune pass in between returns
\* an item whose data is v.
C1_GetReturnsSaved ==
    (call.op = "Get" /\ saved[call.key] # NoSave)
        => (ret # NilItem /\ ret.Data = saved[call.key])

\* C2: Save on a key not in the Store returns false and adds one to saves and
\* nothing to updates; on a key in the Store it returns true and adds one to
\* updates and nothing to saves.
C2_SaveCounts ==
    [][\A k \in Keys, i \in SaveInputs :
          Save(k, i[1], i[2]) =>
              IF k \in DOMAIN cache
              THEN /\ ret' = TRUE
                   /\ stats'.Updates = stats.Updates + 1
                   /\ stats'.Saves = stats.Saves
              ELSE /\ ret' = FALSE
                   /\ stats'.Saves = stats.Saves + 1
                   /\ stats'.Updates = stats.Updates]_vars

\* C3: Get on a present key adds one to the global hits and to the item's own
\* hits, sets the item's lastAccess to the cached now, leaves its data and
\* createdAt alone, and returns a copy carrying those values.
C3_GetHit ==
    [][\A k \in Keys :
          (Get(k) /\ k \in DOMAIN cache) =>
              /\ stats' = [stats EXCEPT !.Hits = @ + 1]
              /\ DOMAIN cache' = DOMAIN cache
              /\ cache'[k].Hits = cache[k].Hits + 1
              /\ cache'[k].Last = now
              /\ cache'[k].Data = cache[k].Data
              /\ cache'[k].Time = cache[k].Time
              /\ ret' # NilItem
              /\ ret'.Data = cache[k].Data
              /\ ret'.Time = cache[k].Time
              /\ ret'.Last = now
              /\ ret'.Hits = cache[k].Hits + 1
              /\ ret'.ref \notin Refs(cache')]_vars

\* A Get hit, at a cached now later than the item's creation.
C3_Witness ==
    call.op = "Get" /\ ret # NilItem /\ ret.Hits >= 1 /\ ret.Last > ret.Time

\* C4: Get on an absent key returns absent, adds one to misses, and leaves
\* the Store and every other counter as they were.
C4_GetMiss ==
    [][\A k \in Keys :
          (Get(k) /\ k \notin DOMAIN cache) =>
              /\ ret' = NilItem
              /\ stats' = [stats EXCEPT !.Misses = @ + 1]
              /\ cache' = cache]_vars

\* A Get miss on a Store that holds another key.
C4_Witness ==
    call.op = "Get" /\ ret = NilItem /\ DOMAIN cache # {} /\ stats.Misses >= 1

\* C5: Delete on a present key removes it (a following Get is a miss),
\* returns true and adds one to deletes only; on an absent key it returns
\* false, adds one to delete-misses only, and leaves the Store as it was.
C5_Delete ==
    [][\A k \in Keys :
          /\ Delete(k) =>
                IF k \in DOMAIN cache
                THEN /\ ret' = TRUE
                     /\ DOMAIN cache' = DOMAIN cache \ {k}
                     /\ \A j \in DOMAIN cache' : cache'[j] = cache[j]
                     /\ stats' = [stats EXCEPT !.Deletes = @ + 1]
                ELSE /\ ret' = FALSE
                     /\ stats' = [stats EXCEPT !.DelMiss = @ + 1]
                     /\ cache' = cache
          /\ (Get(k) /\ k \notin DOMAIN cache) => ret' = NilItem]_vars

\* A Delete of a present key.
C5_Witness ==
    call.op = "Delete" /\ ret = TRUE /\ stats.Deletes >= 1 /\ call.key \notin DOMAIN cache

\* C6: Update adds one to hits when the key is present and one to misses when
\* it is absent, in addition to the updates or saves counter; Save never
\* changes hits or misses.
C6_UpdateReadStats ==
    [][/\ \A k \in Keys, i \in UpdateInputs :
             Update(k, i[1], i[2]) =>
                 IF k \in DOMAIN cache
                 THEN stats' = [stats EXCEPT !.Hits = @ + 1, !.Updates = @ + 1]
                 ELSE stats' = [stats EXCEPT !.Misses = @ + 1, !.Saves = @ + 1]
       /\ \A k \in Keys, i \in SaveInputs :
             Save(k, i[1], i[2]) =>
                 /\ stats'.Hits = stats.Hits
                 /\ stats'.Misses = stats.Misses]_vars

\* C7: List returns a mapping whose keys are exactly the keys of the Store
\* when the request is processed, each entry carrying the stored item's data,
\* createdAt, lastAccess and hits; its size is the size Stats reports there.
C7_ListIsStore ==
    /\ call.op = "List" =>
          /\ DOMAIN ret.items = DOMAIN cache
          /\ \A k \in DOMAIN cache :
                /\ ret.items[k].Data = cache[k].Data
                /\ ret.items[k].Time = cache[k].Time
                /\ ret.items[k].Last = cache[k].Last
                /\ ret.items[k].Hits = cache[k].Hits
    /\ call.op = "Stats" => ret.Size = Cardinality(DOMAIN cache)

\* A List of a Store of two keys.
C7_Witness ==
    /\ call.op = "List"
    /\ Cardinality(DOMAIN ret.items) = 2
    /\ DOMAIN cache = Keys

\* What a caller holds of the turn just taken: the Items it can write to.
HeldRefs ==
    IF call.op \in {"Get", "Update"} /\ ret # NilItem THEN {ret.ref}
    ELSE IF call.op = "List" THEN Refs(ret.items)
    ELSE {}

NoShared ==
    /\ HeldRefs \cap Refs(cache) = {}
    /\ call.op = "List" => ret.ref # StoreMapRef

\* C8: no Item of the Store is shared with a caller: nothing Get, Update or
\* List returns is an object the Store holds, and a caller's writes to what
\* it was returned (an Item's fields, the mapping's entries) leave the Store,
\* hence every later Get, List and prune decision, as they were.
C8_NoSharing ==
    [][NoShared' /\ ((MutateItem \/ MutateMap) => cache' = cache)]_vars

\* A caller has written to what it was returned while the Store holds an
\* item that was read, and no item of the Store shows the write.
C8_Witness ==
    /\ call.op = "Mutate"
    /\ \E k \in DOMAIN cache : cache[k].Hits >= 1
    /\ \A k \in DOMAIN cache : cache[k].Data # ScribbleData /\ cache[k].Hits >= 0

\* C9: with pruning on, an item saved with no prune flag and no expiry is
\* removed by a prune pass exactly when its idle time then, the pass's now
\* less its lastAccess, exceeds maxUnused.
C9_IdleEviction ==
    [][PruneTick =>
          \A k \in DOMAIN cache :
              (~cache[k].opts.Prune /\ cache[k].opts.Expire = ZeroTime) =>
                  ((k \notin DOMAIN cache') <=> (now' - cache[k].Last > conf.MaxUnused))]_vars

\* A prune pass removed an unflagged item with no expiry.
C9_Witness ==
    /\ call.op = "Prune"
    /\ \E k \in DOMAIN evicted :
          /\ ~evicted[k].opts.Prune
          /\ evicted[k].opts.Expire = ZeroTime
          /\ now - evicted[k].Last > conf.MaxUnused

\* Two items that differ in the prune flag alone.
Twins(flagged, plain) ==
    /\ flagged.opts.Prune
    /\ ~plain.opts.Prune
    /\ flagged.opts.Expire = plain.opts.Expire
    /\ flagged.Data = plain.Data
    /\ flagged.Time = plain.Time
    /\ flagged.Last = plain.Last
    /\ flagged.Hits = plain.Hits

\* C10: an item saved with prune=true is removed by a prune pass at which its
\* idle time exceeds pruneAfter; a pass never removes an item saved with
\* prune=false while keeping an otherwise identical one saved with prune=true.
\* (That with pruneAfter < maxUnused some pass removes the flagged one and
\* keeps the other is C10_Witness.)
C10_FlaggedEviction ==
    [][PruneTick =>
          /\ \A k \in DOMAIN cache :
                (cache[k].opts.Prune /\ now' - cache[k].Last > conf.PruneAfter)
                    => k \notin DOMAIN cache'
          /\ \A k1, k2 \in DOMAIN cache :
                (Twins(cache[k1], cache[k2]) /\ k2 \notin DOMAIN cache')
                    => k1 \notin DOMAIN cache']_vars

\* With pruneAfter < maxUnused, a prune pass removed a flagged item and kept
\* its unflagged twin.
C10_Witness ==
    /\ call.op = "Prune"
    /\ conf.PruneAfter < conf.MaxUnused
    /\ \E k1 \in DOMAIN evicted, k2 \in DOMAIN cache :
          /\ Twins(evicted[k1], cache[k2])
          /\ now - cache[k2].Last > conf.PruneAfter

\* The idle grounds of the pruner for the item at k, at a pass whose now is t.
IdleGround(k, t) ==
    \/ t - cache[k].Last > conf.MaxUnused
    \/ cache[k].opts.Prune /\ t - cache[k].Last > conf.PruneAfter

\* C11, as stated: a prune pass removes every item with a deadline set when
\* the pass's now is at or past the deadline (now >= expireAt).
C11_DeadlineAtOrPast ==
    [][PruneTick =>
          \A k \in DOMAIN cache :
              (cache[k].opts.Expire # ZeroTime /\ now' >= cache[k].opts.Expire)
                  => k \notin DOMAIN cache']_vars

\* C11, amended: a prune pass removes every item with a deadline set when the
\* pass's now is strictly past the deadline (now > expireAt), whatever its
\* idle time or prune flag; at a pass whose now is the deadline or earlier,
\* and for an item with no deadline, the item goes only on the idle grounds.
C11_DeadlinePast ==
    [][PruneTick =>
          \A k \in DOMAIN cache :
              /\ (cache[k].opts.Expire # ZeroTime /\ now' > cache[k].opts.Expire)
                    => k \notin DOMAIN cache'
              /\ (cache[k].opts.Expire = ZeroTime \/ now' <= cache[k].opts.Expire)
                    => ((k \notin DOMAIN cache') <=> IdleGround(k, now'))]_vars

\* A prune pass removed an item on its deadline alone: its idle time was
\* within both thresholds.
C11_Witness ==
    /\ call.op = "Prune"
    /\ \E k \in DOMAIN evicted :
          /\ evicted[k].opts.Expire # ZeroTime
          /\ now > evicted[k].opts.Expire
          /\ now - evicted[k].Last <= conf.MaxUnused
          /\ now - evicted[k].Last <= conf.PruneAfter

\* The six request counters of a Stats record.
Counted(st) ==
    [Hits |-> st.Hits, Misses |-> st.Misses, Saves |-> st.Saves,
     Updates |-> st.Updates, Deletes |-> st.Deletes, DelMiss |-> st.DelMiss]

\* The request counters of st after one more operation with these outcomes.
Tally(st, outcomes) ==
    [f \in DOMAIN Counted(st) |-> IF f \in outcomes THEN st[f] + 1 ELSE st[f]]

\* C12: the counters Stats reports are the numbers of operations of each
\* outcome processed so far: they start at zero, every operation processed
\* adds one to the counter of its outcome (a Get or Update a hit or a miss, a
\* Save or Update a save or an update, a Delete a delete or a delete-miss) and
\* to no other, nothing else changes them; size is the number of keys in the
\* Store when Stats is processed and gets is hits + misses.
C12_StatsCount ==
    [][/\ \A k \in Keys :
             /\ Get(k) =>
                   Counted(stats') = Tally(stats, IF k \in DOMAIN cache THEN {"Hits"} ELSE {"Misses"})
             /\ Delete(k) =>
                   Counted(stats') = Tally(stats, IF k \in DOMAIN cache THEN {"Deletes"} ELSE {"DelMiss"})
             /\ \A i \in SaveInputs :
                   Save(k, i[1], i[2]) =>
                       Counted(stats') = Tally(stats, IF k \in DOMAIN cache THEN {"Updates"} ELSE {"Saves"})
             /\ \A i \in UpdateInputs :
                   Update(k, i[1], i[2]) =>
                       Counted(stats') = Tally(stats, IF k \in DOMAIN cache
                                                      THEN {"Hits", "Updates"}
                                                      ELSE {"Misses", "Saves"})
       /\ (List \/ Stats \/ PruneTick \/ ClockRefresh \/ TimerFire \/ PrunerFire)
             => Counted(stats') = Counted(stats)
       /\ Stats =>
             /\ Counted(ret') = Counted(stats)
             /\ ret'.Size = Cardinality(DOMAIN cache)
             /\ ret'.Gets = stats.Hits + stats.Misses]_vars

\* C13: with any number of concurrent callers, the Store and the Stats change
\* only by one whole operation at a time, applied when the worker dequeues
\* the request (or by a prune pass); the reply a caller receives is the one
\* that operation produced for its own request; and a caller has one call
\* at a time, so its calls are applied in its program order.
C13_Serialized ==
    [][/\ (cache' # cache \/ stats' # stats) =>
             \/ PruneTick
             \/ \E p \in Procs :
                   /\ pc[p] = "send" /\ pc'[p] = "recv"
                   /\ \A q \in Procs \ {p} : pc'[q] = pc[q]
                   /\ LET r == process(cache, stats, now, ReqOf(rq[p]))
                      IN  cache' = r.cache /\ stats' = r.stats /\ worker'.item = r.item
       /\ \A p \in Procs :
             /\ (pc[p] = "recv" /\ pc'[p] = "done") =>
                   /\ worker.to = p
                   /\ got'[p] = Returned(rq[p].op, worker.item)
             /\ (pc[p] \in {"send", "recv"}) => rq'[p] = rq[p]
             /\ (pc[p] \in {"recv", "done"}) => pc'[p] # "send"
       /\ (worker.pc = "reply" /\ worker'.pc = "reply") => worker' = worker]_vars

\* One caller has the reply to its Get, a hit, while the other is blocked in
\* the send of its request.
C13_Witness ==
    /\ pc[1] = "done" /\ rq[1].op = "Get" /\ got[1] # NilItem
    /\ pc[2] = "send"

\* C14: the worker sends exactly one reply for every request it dequeues, and
\* sends it before it dequeues another request or handles a tick: while a
\* reply is pending the cached now, the Store and the Stats do not change.
C14_ReplyBeforeNext ==
    [][/\ worker.pc = "reply" =>
             \/ /\ worker'.pc = "select"
                /\ \E p \in Procs :
                      /\ pc[p] = "recv" /\ pc'[p] = "done"
                      /\ \A q \in Procs \ {p} : pc'[q] = pc[q]
             \/ /\ worker' = worker
                /\ now' = now /\ cache' = cache /\ stats' = stats
                /\ \A p \in Procs : pc[p] = "recv" => pc'[p] = "recv"
       /\ \A p \in Procs :
             /\ (pc[p] = "send" /\ pc'[p] = "recv") =>
                   worker.pc = "select" /\ worker'.pc = "reply"
             /\ (pc[p] = "recv" /\ pc'[p] # "recv") =>
                   worker.pc = "reply" /\ worker'.pc = "select"]_vars

\* A reply is pending while a clock tick and a prune tick wait in their
\* channels.
C14_Witness ==
    worker.pc = "reply" /\ Len(timerC) = 1 /\ Len(prunerC) = 1

\* C15: with no Stop and no cancellation, every call a caller has begun
\* returns, for any number of callers and any interleaving with the ticks.
C15_CallsReturn ==
    \A p \in Procs : (pc[p] \in {"send", "recv"}) ~> (pc[p] = "done")

\* Both callers have a call in progress, one waiting for its reply and one
\* for its request to be received, and a prune tick is waiting.
C15_Witness ==
    pc[1] = "recv" /\ pc[2] = "send" /\ Len(prunerC) = 1

\* A step of a Start call, of a Stop call up to its <-c.res, of a Stop call
\* from its <-c.res on.
StartStep == ctrl' # ctrl /\ ctrl'.pc \in {"noStart", "didStart"}
StopStep == ctrl' # ctrl /\ ctrl.pc # "inStop" /\ ctrl'.pc \in {"noStop", "inStop"}
StopReturn == ctrl.pc = "inStop" /\ ctrl'.pc \in {"didStop", "didStopEarly"}

\* C16: a Start, with either value of clean, made while the running flag is
\* set, and a Stop, with either value of clean, made while it is not, change
\* nothing: the Store, the Stats, both channels, the flag, the worker and its
\* clock stay as they were, and so do the callers.
C16_NoOps ==
    [][((run /\ StartStep) \/ (~run /\ StopStep)) =>
           /\ cache' = cache /\ stats' = stats
           /\ reqCh' = reqCh /\ resCh' = resCh /\ run' = run
           /\ worker' = worker /\ tail' = tail /\ ctx' = ctx
           /\ now' = now /\ timerC' = timerC /\ prunerC' = prunerC
           /\ pc' = pc /\ fault' = fault
           /\ ctrl'.pc \in {"noStart", "noStop"}]_vars

\* A Stop(true) that found the cache not running has returned: the Store
\* still holds its items.
C16_Witness ==
    /\ ctrl.pc = "noStop" /\ ctrl.clean
    /\ ~run /\ worker.pc = "none"
    /\ cache # EmptyCache

\* C17: a Start(c2) made after Stop(c1) has returned, with no call in flight,
\* leaves a worker at its select on a new pair of open channels, with the
\* Store as it was before the Stop when c1 and c2 are both false and empty
\* when either is true.
C17_Restart ==
    [][(/\ ctrl.pc = "didStop"
        /\ \A p \in Procs : pc[p] = "idle"
        /\ StartStep) =>
           /\ worker'.pc = "select"
           /\ run' /\ reqCh' = "open" /\ resCh' = "open"
           /\ cache' = IF ctrl.stopped = "true" \/ ctrl'.clean THEN EmptyCache ELSE cache]_vars

\* C18: the counters are the same after Stop(false) followed by Start(false)
\* as before the Stop: no step of a Stop(false) or of a Start(false) changes
\* them, and nothing changes them between that Stop's first step and the
\* Start.
C18_StatsPersist ==
    [][/\ ((StopStep \/ StopReturn \/ StartStep) /\ ~ctrl'.clean) => stats' = stats
       /\ (ctrl.pc \in {"inStop", "didStop", "didStopEarly"} /\ ~ctrl.clean /\ ~ctrl'.clean)
             => stats' = stats]_vars

\* The worker started by a Start(false) that followed a Stop(false) has served
\* nothing yet, and the counters are not zero.
C18_Witness ==
    /\ ctrl.pc = "didStart" /\ ~ctrl.clean /\ ctrl.stopped = "false"
    /\ worker.pc = "select" /\ worker.fresh
    /\ OpCount(stats) > 0

\* The first request a restarted worker serves is a Stats, and the restart
\* was made with a clear: Stop(true) or Start(true).
FirstStatsAfterClear ==
    /\ ctrl.pc = "didStart"
    /\ ctrl.clean \/ ctrl.stopped = "true"
    /\ worker.pc = "select" /\ worker.fresh
    /\ \E p \in Procs : pc[p] = "send" /\ pc'[p] = "recv" /\ rq[p].op = "Stats"

\* C19 as stated: after a restart with a clear the first Stats() reports every
\* counter as zero, and size zero.
C19_CountersCleared ==
    [][FirstStatsAfterClear =>
           LET s == StatsOf(worker'.item)
           IN  /\ \A f \in DOMAIN ZeroStats : s[f] = 0
               /\ s.Gets = 0 /\ s.Size = 0]_vars

\* C19, amended: a clear leaves the counters as they are; after a restart with
\* a clear the first Stats() reports every counter with the value it had
\* before the Stop, and size zero.
C19_CountersKept ==
    [][/\ ((StopStep \/ StopReturn \/ StartStep) /\ ctrl'.clean) => stats' = stats
       /\ FirstStatsAfterClear =>
             LET s == StatsOf(worker'.item)
             IN  /\ \A f \in DOMAIN ZeroStats : s[f] = stats[f]
                 /\ s.Size = 0]_vars

\* A Stats is being answered after a restart with a clear: the Store is empty
\* with no delete and no prune made, and a save is counted.
C19_Witness ==
    /\ ctrl.pc = "didStart"
    /\ ctrl.clean \/ ctrl.stopped = "true"
    /\ worker.pc = "reply" /\ worker.dyn = "Stats"
    /\ StatsOf(worker.item).Saves >= 1 /\ StatsOf(worker.item).Size = 0
    /\ stats.Deletes = 0 /\ stats.DelMiss = 0 /\ stats.Pruned = 0

\* C20: the worker that leaves on the cancellation of its context closes
\* c.req and c.res and leaves the Store and the Stats as they are; while no
\* worker runs the clock is not refreshed and no request is processed, and
\* the running flag is false once the worker is through; a Start(false) made
\* then starts a worker on the Store as it was.
C20_CancelLeaves ==
    [][/\ (worker.pc # "none" /\ reqCh = "open" /\ worker'.pc = "none") =>
             /\ ctx = "done"
             /\ reqCh' = "closed" /\ resCh' = "closed"
             /\ cache' = cache /\ stats' = stats
             /\ tail'
       /\ (worker.pc = "none" /\ worker'.pc = "none") =>
             /\ now' = now /\ timerC' = timerC /\ prunerC' = prunerC
             /\ stats' = stats
             /\ ctrl' = ctrl => cache' = cache
             /\ \A p \in Procs : pc'[p] # "recv"
       /\ (worker.pc = "none" /\ ~tail) => ~run
       /\ (worker.pc = "none" /\ ~run /\ StartStep /\ ~ctrl'.clean) =>
             /\ worker' = AtSelect /\ run'
             /\ reqCh' = "open" /\ resCh' = "open"
             /\ cache' = cache]_vars

\* The worker started by Start(false) after a cancellation, with no Stop made,
\* has served nothing yet; the Store holds an item, and a Get of it waits.
C20_Witness ==
    /\ ctrl.pc = "didStart" /\ ~ctrl.clean /\ ctrl.stopped = "no"
    /\ ctx = "background"
    /\ worker.pc = "select" /\ worker.fresh
    /\ pc[1] = "send" /\ rq[1].op = "Get" /\ rq[1].key \in DOMAIN cache

\* Caller p issues a call: it evaluates its send on c.req.
Issues(p) == pc[p] = "idle" /\ rq[p] = NoCall /\ rq'[p] # NoCall

\* C21: a call issued after Stop has returned, or after the worker has left
\* its loop (on a Stop or on the cancellation of its context), panics at
\* once: the caller gets nothing and is not left blocked, and the Store and
\* the Stats are as they were.
C21_CallAfterStop ==
    [][\A p \in Procs :
          (/\ Issues(p)
           /\ \/ ctrl.pc \in {"didStop", "didStopEarly", "noStop"}
              \/ worker.pc = "none") =>
              /\ fault' = SendOnClosed
              /\ pc'[p] = "idle" /\ got'[p] = NilItem
              /\ cache' = cache /\ stats' = stats]_vars

\* A Get made after the context was cancelled and the worker left, with no
\* Stop made, has panicked; the Store holds an item.
C21_Witness ==
    /\ fault = SendOnClosed
    /\ pc[1] = "idle" /\ rq[1].op = "Get"
    /\ ctrl.pc = "idle" /\ ctx = "done" /\ worker.pc = "none"
    /\ cache # EmptyCache

\* C22: with PruneInterval = 0 no prune pass runs: prunes-run and items-pruned
\* stay 0, a key leaves the Store only in a Delete of it, and a Get of a key
\* in the Store is a hit whatever its deadline and idle time.
C22_NoPruneAtZero ==
    [][conf.PruneInterval = 0 =>
           /\ stats'.Prunes = 0 /\ stats'.Pruned = 0
           /\ \A k \in DOMAIN cache :
                 k \notin DOMAIN cache' => (call'.op = "Delete" /\ call'.key = k)
           /\ \A k \in DOMAIN cache : Get(k) => ret' # NilItem]_vars

\* C23: for every payload, nil included, a Save(k, d, o) and an Update(k, d, o)
\* leave k in the Store holding d, add one to exactly one of saves and
\* updates, and leave deletes and delete-misses as they were.
C23_SaveAlwaysStores ==
    [][\A k \in Keys :
          /\ \A i \in SaveInputs :
                Save(k, i[1], i[2]) =>
                    /\ k \in DOMAIN cache' /\ cache'[k].Data = i[1]
                    /\ stats'.Saves + stats'.Updates = stats.Saves + stats.Updates + 1
                    /\ stats'.Deletes = stats.Deletes /\ stats'.DelMiss = stats.DelMiss
          /\ \A i \in UpdateInputs :
                Update(k, i[1], i[2]) =>
                    /\ k \in DOMAIN cache' /\ cache'[k].Data = i[1]
                    /\ stats'.Saves + stats'.Updates = stats.Saves + stats.Updates + 1
                    /\ stats'.Deletes = stats.Deletes /\ stats'.DelMiss = stats.DelMiss]_vars

\* The item a Save or Update with options o, processed at cached time t, is
\* to leave at k.
Fresh(cch, k, o, t) ==
    /\ k \in DOMAIN cch
    /\ cch[k].Time = t /\ cch[k].Last = t /\ cch[k].Hits = 0
    /\ cch[k].opts = o

\* C24: after a Save or an Update of k the item stored at k has createdAt =
\* lastAccess = now, hits = 0 and the options of that call, whatever item
\* was at k before.
C24_FreshItem ==
    [][\A k \in Keys :
          /\ \A i \in SaveInputs : Save(k, i[1], i[2]) => Fresh(cache', k, i[2], now)
          /\ \A i \in UpdateInputs : Update(k, i[1], i[2]) => Fresh(cache', k, i[2], now)]_vars

\* C25 as stated: an Update of a key in the Store returns the data, the
\* createdAt, the lastAccess and the hits the Store held for it just before
\* the call; an Update of a key not in the Store returns absent.
C25_UpdateReturnsOld ==
    [][\A k \in Keys, i \in UpdateInputs :
          Update(k, i[1], i[2]) =>
              IF k \in DOMAIN cache
              THEN /\ ret' # NilItem
                   /\ ret'.Data = cache[k].Data /\ ret'.Time = cache[k].Time
                   /\ ret'.Last = cache[k].Last /\ ret'.Hits = cache[k].Hits
              ELSE ret' = NilItem]_vars

\* C25, amended: an Update of a key in the Store returns a copy of the item
\* as a Get leaves it: the data and the createdAt the Store held just before
\* the call, lastAccess = now and the hits it held plus one; an Update of a
\* key not in the Store returns absent.
C25_UpdateReturnsRead ==
    [][\A k \in Keys, i \in UpdateInputs :
          Update(k, i[1], i[2]) =>
              IF k \in DOMAIN cache
              THEN /\ ret' # NilItem
                   /\ ret'.Data = cache[k].Data /\ ret'.Time = cache[k].Time
                   /\ ret'.Last = now /\ ret'.Hits = cache[k].Hits + 1
                   /\ ret'.ref \notin Refs(cache) \cup Refs(cache')
              ELSE ret' = NilItem]_vars

\* An Update with a payload has returned the item it replaced, read at a
\* cached now later than its creation.
C25_Witness ==
    /\ call.op = "Update" /\ call.data # NilData
    /\ ret # NilItem /\ ret.Hits = 1 /\ ret.Last > ret.Time
    /\ cache[call.key].Data = call.data /\ cache[call.key].Hits = 0

\* C26: a List and a Stats leave the Store and the Stats as they were: the
\* same keys, every item with the data, createdAt, lastAccess and hits it
\* had, every counter as it was; so a prune pass at any time removes after
\* the call what it would have removed before it.
C26_ReadOnly ==
    [][(List \/ Stats) =>
           /\ DOMAIN cache' = DOMAIN cache
           /\ \A k \in DOMAIN cache :
                 /\ cache'[k].Data = cache[k].Data /\ cache'[k].Time = cache[k].Time
                 /\ cache'[k].Last = cache[k].Last /\ cache'[k].Hits = cache[k].Hits
           /\ stats' = stats
           /\ \A t \in 1..MaxTime :
                 DOMAIN prune(cache', stats', conf, t).gone
                     = DOMAIN prune(cache, stats, conf, t).gone]_vars

\* A List has returned an item that was last read before the cached now.
C26_Witness ==
    /\ call.op = "List"
    /\ \E k \in DOMAIN cache :
          /\ k \in DOMAIN ret.items
          /\ cache[k].Last < now /\ cache[k].Hits >= 1

\* A Start launches a worker.
Launch ==
    /\ ctrl'.pc = "didStart"
    /\ ctrl' # ctrl \/ (worker' = AtSelect /\ worker # AtSelect)

\* C27: a worker is launched only when no worker is in its loop and the one
\* before it has executed the last statement of its exit, and the running
\* flag is never false while a worker is in its loop.
C27_OneWorker ==
    [][/\ Launch => (worker.pc = "none" /\ ~tail /\ ~run)
       /\ ~run => worker.pc = "none"
       /\ tail => worker.pc = "none"]_vars

\* The worker a Start launched after a Stop had returned is sending a reply.
C27_Witness ==
    /\ ctrl.pc = "didStart" /\ ctrl.stopped # "no"
    /\ worker.pc = "reply" /\ run /\ ~tail

\* What a call of kind op can be handed by the request it made: an item or
\* absent for a Get or an Update, a boolean for a Save or a Delete, a mapping
\* of items for a List, a record of counters for a Stats.
KindOf(op, v) ==
    CASE op \in {"Get", "Update"} -> v = NilItem \/ "Data" \in DOMAIN v
      [] op \in {"Save", "Delete"} -> v \in BOOLEAN
      [] op = "List" -> "items" \in DOMAIN v /\ v # NilMap
      [] op = "Stats" -> "Gets" \in DOMAIN v

\* C28: with concurrent callers and no Stop or cancellation, the reply the
\* worker is sending answers the request of the one caller that is
\* receiving, is of the dynamic type that request produces, and is what that
\* caller returns; no caller panics on a reply that is not its own.
C28_RepliesRouted ==
    [][/\ fault = NoFault
       /\ worker.pc = "reply" =>
             /\ {p \in Procs : pc[p] = "recv"} = {worker.to}
             /\ worker.dyn = DynOf(ReqOf(rq[worker.to]))
       /\ worker.pc # "reply" => {p \in Procs : pc[p] = "recv"} = {}
       /\ \A p \in Procs :
             (pc[p] # "done" /\ pc'[p] = "done") =>
                 /\ pc[p] = "recv" /\ worker.to = p
                 /\ KindOf(rq[p].op, got'[p])
                 /\ got'[p] = Returned(rq[p].op, worker.item)]_vars

\* A Stats has returned its counters to caller 1 while caller 2, whose Get
\* was received next, waits for its reply, an item.
C28_Witness ==
    /\ pc[1] = "done" /\ rq[1].op = "Stats" /\ KindOf("Stats", got[1])
    /\ pc[2] = "recv" /\ rq[2].op = "Get"
    /\ worker.pc = "reply" /\ worker.to = 2 /\ worker.item # NilItem

\* The number of keys in the Store is saves - deletes - items-pruned.
SizeBalance(cch, st) == Cardinality(DOMAIN cch) = st.Saves - st.Deletes - st.Pruned

\* C29: on a cache that is never cleaned the number of keys in the Store is
\* saves - deletes - items-pruned in every state, and no counter ever
\* decreases.
C29_SizeBalance ==
    [][/\ SizeBalance(cache, stats)
       /\ SizeBalance(cache', stats')
       /\ \A f \in DOMAIN ZeroStats : stats'[f] >= stats[f]]_vars

\* A prune pass has removed one of the two items saved.
C29_Witness ==
    /\ call.op = "Prune"
    /\ Cardinality(DOMAIN cache) = 1 /\ stats.Saves = 2 /\ stats.Pruned = 1

\* C30: the cached now never decreases, whatever the order in which the
\* ticks of the two tickers are received, and no stored item has a
\* lastAccess later than now.
C30_NowMonotone ==
    [][/\ now' >= now
       /\ \A k \in DOMAIN cache' : cache'[k].Last <= now']_vars

\* C31: when a Stop call and the cancellation of the context interleave,
\* c.req is closed at most once and the Stop call does not fault: the first
\* Stop made on a cache whose context is cancelled does not close a channel
\* the worker closed on ctx.Done, and while a Stop waits on c.res after its
\* close the worker does not close c.req again.
C31_StopCancelClosesOnce ==
    [][/\ (ctx = "done" /\ ctrl = CtrlIdle /\ StopStep) => fault' # CloseOfClosed
       /\ (ctx = "done" /\ ctrl.pc = "inStop") => fault' # CloseOfClosed]_vars

====
